---------------------------- MODULE Spec2Model ----------------------------
(***************************************************************************)
(* A model of the git plumbing in src/src/git_object.rs, src/src/lib.rs    *)
(* and src/src/main.rs: the object codec (Object, TreeEntry, parse_fields),*)
(* the object store (Object::write, write_obj, read_object), the two tree  *)
(* writers (Tree::from_working_directory + Tree::write, and read_dir), and *)
(* the commands built on them.                                             *)
(*                                                                         *)
(* Bytes are the integers 0..255; a byte buffer, a String and a file name  *)
(* are sequences of bytes.  A path is a record [abs, comps]; the process's *)
(* current directory is the repository root, so a relative and an absolute *)
(* path with the same components name the same file, and they differ only  *)
(* in how Path::join treats them.                                          *)
(***************************************************************************)
EXTENDS Integers, Sequences, FiniteSets, TLC

VARIABLES
    fs,      \* the filesystem: path components -> node (dir or file)
    before,  \* the filesystem as it was when the last command started
    res,     \* the result of the last command
    out,     \* the bytes the last command wrote to its writer
    wlog,    \* the object files the last command wrote, in order
    enum,    \* the order in which the filesystem enumerates names
    ncmd,    \* the number of commands run so far
    cin,     \* codec: the input of the last codec call
    cout     \* codec: its result

vars == <<fs, before, res, out, wlog, enum, ncmd, cin, cout>>

---------------------------------------------------------------------------
(* Bytes and text                                                          *)

SP == 32
NUL == 0
DOT == 46
HashLen == 20

S_blob == <<98, 108, 111, 98>>
S_commit == <<99, 111, 109, 109, 105, 116>>
S_tag == <<116, 97, 103>>
S_tree == <<116, 114, 101, 101>>
S_git == <<46, 103, 105, 116>>
S_objects == <<111, 98, 106, 101, 99, 116, 115>>
S_refs == <<114, 101, 102, 115>>
S_HEAD == <<72, 69, 65, 68>>
\* "ref: refs/heads/master\n"
S_headref == <<114, 101, 102, 58, 32, 114, 101, 102, 115, 47, 104, 101, 97,
               100, 115, 47, 109, 97, 115, 116, 101, 114, 10>>
S_40000 == <<52, 48, 48, 48, 48>>
S_100755 == <<49, 48, 48, 55, 53, 53>>
S_100644 == <<49, 48, 48, 54, 52, 52>>

\* The first index i >= from with b[i] = x, or 0 (slice::iter().position).
RECURSIVE Position(_, _, _)
Position(b, x, from) ==
    IF from > Len(b) THEN 0
    ELSE IF b[from] = x THEN from
    ELSE Position(b, x, from + 1)

\* format!("{}", n) of a usize.
RECURSIVE ToDecimal(_)
ToDecimal(n) ==
    IF n < 10 THEN <<48 + n>>
    ELSE Append(ToDecimal(n \div 10), 48 + (n % 10))

IsDigit(c) == c >= 48 /\ c <= 57

RECURSIVE DigitsValue(_, _)
DigitsValue(s, acc) ==
    IF s = <<>> THEN acc
    ELSE DigitsValue(Tail(s), acc * 10 + (Head(s) - 48))

\* str::parse::<usize>: an optional '+', then one or more decimal digits.
\* (Inputs here are short, so the 64-bit overflow error never arises.)
ParseUsize(s) ==
    LET d == IF s # <<>> /\ s[1] = 43 THEN Tail(s) ELSE s
    IN  IF d # <<>> /\ \A i \in 1..Len(d) : IsDigit(d[i])
        THEN [ok |-> TRUE, val |-> DigitsValue(d, 0)]
        ELSE [ok |-> FALSE, val |-> 0]

IsCont(b, i) == i <= Len(b) /\ b[i] >= 128 /\ b[i] <= 191
InRange(b, i, lo, hi) == i <= Len(b) /\ b[i] >= lo /\ b[i] <= hi

\* str::from_utf8 / String::from_utf8 succeed exactly on well-formed UTF-8.
RECURSIVE Utf8From(_, _)
Utf8From(b, i) ==
    IF i > Len(b) THEN TRUE
    ELSE LET c == b[i] IN
      CASE c < 128 -> Utf8From(b, i + 1)
        [] c >= 194 /\ c <= 223 -> IsCont(b, i + 1) /\ Utf8From(b, i + 2)
        [] c = 224 -> InRange(b, i + 1, 160, 191) /\ IsCont(b, i + 2)
                      /\ Utf8From(b, i + 3)
        [] (c >= 225 /\ c <= 236) \/ c = 238 \/ c = 239 ->
                      IsCont(b, i + 1) /\ IsCont(b, i + 2) /\ Utf8From(b, i + 3)
        [] c = 237 -> InRange(b, i + 1, 128, 159) /\ IsCont(b, i + 2)
                      /\ Utf8From(b, i + 3)
        [] c = 240 -> InRange(b, i + 1, 144, 191) /\ IsCont(b, i + 2)
                      /\ IsCont(b, i + 3) /\ Utf8From(b, i + 4)
        [] c >= 241 /\ c <= 243 -> IsCont(b, i + 1) /\ IsCont(b, i + 2)
                      /\ IsCont(b, i + 3) /\ Utf8From(b, i + 4)
        [] c = 244 -> InRange(b, i + 1, 128, 143) /\ IsCont(b, i + 2)
                      /\ IsCont(b, i + 3) /\ Utf8From(b, i + 4)
        [] OTHER -> FALSE

IsUtf8(b) == Utf8From(b, 1)

HexDigit(n) == IF n < 10 THEN 48 + n ELSE 87 + n

\* hex::encode: two lowercase hex characters per byte.
RECURSIVE HexEncode(_)
HexEncode(b) ==
    IF b = <<>> THEN <<>>
    ELSE <<HexDigit(Head(b) \div 16), HexDigit(Head(b) % 16)>> \o HexEncode(Tail(b))

\* String's Ord: lexicographic comparison of the UTF-8 bytes.
RECURSIVE BytesLess(_, _)
BytesLess(a, b) ==
    IF b = <<>> THEN FALSE
    ELSE IF a = <<>> THEN TRUE
    ELSE IF Head(a) # Head(b) THEN Head(a) < Head(b)
    ELSE BytesLess(Tail(a), Tail(b))

\* Only the store's own directory told apart.
StartsWithDot_git_only(name) == name = S_git

StartsWithDot(name) == name # <<>> /\ name[1] = DOT

---------------------------------------------------------------------------
(* The collaborators: the digest and the compression codec                 *)

\* The sum over i in lo..hi of (p*i*i + q*i + 1) * (b[i] + 1), modulo m, by
\* halving.
RECURSIVE WeightedSum(_, _, _, _, _, _)
WeightedSum(b, lo, hi, m, p, q) ==
    IF lo > hi THEN 0
    ELSE IF lo = hi THEN (((p * lo * lo + q * lo + 1) % m) * (b[lo] + 1)) % m
    ELSE LET mid == (lo + hi) \div 2 IN
         (WeightedSum(b, lo, mid, m, p, q)
            + WeightedSum(b, mid + 1, hi, m, p, q)) % m

\* A checksum of the bytes, their positions and the length, modulo m.
Mix(b, m, p, q) == (WeightedSum(b, 1, Len(b), m, p, q) + Len(b) * p + q) % m

\* One byte of the digest, from the two checksums.
Lane(k1, k2, j) ==
    CASE j = 1 -> k1 % 256
      [] j = 2 -> k1 \div 256
      [] j = 3 -> k2 % 256
      [] j = 4 -> k2 \div 256
      [] OTHER -> (k1 * j + k2 * (j + 7) + (k1 \div (j + 1)) + 31 * j) % 256

Digest20(k1, k2) ==
    << Lane(k1, k2, 1), Lane(k1, k2, 2), Lane(k1, k2, 3), Lane(k1, k2, 4),
       Lane(k1, k2, 5), Lane(k1, k2, 6), Lane(k1, k2, 7), Lane(k1, k2, 8),
       Lane(k1, k2, 9), Lane(k1, k2, 10), Lane(k1, k2, 11), Lane(k1, k2, 12),
       Lane(k1, k2, 13), Lane(k1, k2, 14), Lane(k1, k2, 15), Lane(k1, k2, 16),
       Lane(k1, k2, 17), Lane(k1, k2, 18), Lane(k1, k2, 19), Lane(k1, k2, 20) >>

\* Sha1::new().update(bytes).finalize(): a 20-byte digest of the bytes.  The
\* digest is a black box to the program; here it is a deterministic mixing
\* function of all the bytes, their positions and the length.
Sha1(b) == Digest20(Mix(b, 65521, 7, 11), Mix(b, 65519, 13, 5))

\* Adler-32: a = 1 + the sum of the bytes, s = the sum of the running a's,
\* both modulo 65521.
RECURSIVE ByteSum(_, _, _, _)
ByteSum(b, lo, hi, n) ==
    IF lo > hi THEN 0
    ELSE IF lo = hi THEN (IF n = 0 THEN b[lo] ELSE (n - lo + 1) * b[lo]) % 65521
    ELSE LET mid == (lo + hi) \div 2 IN
         (ByteSum(b, lo, mid, n) + ByteSum(b, mid + 1, hi, n)) % 65521

AdlerBytes(a, s) == <<s \div 256, s % 256, a \div 256, a % 256>>

Adler32(b) ==
    AdlerBytes((1 + ByteSum(b, 1, Len(b), 0)) % 65521,
               (Len(b) + ByteSum(b, 1, Len(b), Len(b))) % 65521)

\* ZlibEncoder::write_all + finish: a zlib stream, abstracted to its header,
\* the payload and the Adler-32 trailer.
ZlibCompress(b) == <<120, 156>> \o b \o Adler32(b)

\* ZlibDecoder::read_to_end: fails on a stream that is not a whole zlib
\* stream (an empty or truncated file, a wrong checksum).
ZlibDecompress(z) ==
    IF Len(z) >= 6 /\ z[1] = 120 /\ z[2] = 156
       /\ SubSeq(z, Len(z) - 3, Len(z)) = Adler32(SubSeq(z, 3, Len(z) - 4))
    THEN [ok |-> TRUE, data |-> SubSeq(z, 3, Len(z) - 4)]
    ELSE [ok |-> FALSE, data |-> <<>>]

---------------------------------------------------------------------------
(* git_object.rs: the field parser and the object codec                    *)

\* parse_fields, after the NUL was looked for.
parse_fields_nul(bytes, space_idx, null_byte_idx) ==
    IF null_byte_idx = 0 THEN [tag |-> "Err", err |-> "NoNul"]
    ELSE IF ~IsUtf8(SubSeq(bytes, space_idx + 1, null_byte_idx - 1))
    THEN [tag |-> "Err", err |-> "Utf8Field2"]
    ELSE [tag |-> "Some",
          field1 |-> SubSeq(bytes, 1, space_idx - 1),
          field2 |-> SubSeq(bytes, space_idx + 1, null_byte_idx - 1),
          rest |-> SubSeq(bytes, null_byte_idx + 1, Len(bytes))]

\* The NUL looked for from the start of the buffer.
parse_fields_space_any_nul(bytes, space_idx) ==
    IF space_idx = 0 THEN [tag |-> "Err", err |-> "NoSpace"]
    ELSE IF ~IsUtf8(SubSeq(bytes, 1, space_idx - 1))
    THEN [tag |-> "Err", err |-> "Utf8Field1"]
    ELSE parse_fields_nul(bytes, space_idx, Position(bytes, NUL, 1))

\* parse_fields, after the space was looked for.
parse_fields_space(bytes, space_idx) ==
    IF space_idx = 0 THEN [tag |-> "Err", err |-> "NoSpace"]
    ELSE IF ~IsUtf8(SubSeq(bytes, 1, space_idx - 1))
    THEN [tag |-> "Err", err |-> "Utf8Field1"]
    ELSE parse_fields_nul(bytes, space_idx, Position(bytes, NUL, space_idx + 1))

\* parse_fields: [tag |-> "None"] for an empty buffer, "Err" when a
\* delimiter is missing or a field is not UTF-8, else the two fields and
\* the bytes after the NUL.
parse_fields(bytes) ==
    IF bytes = <<>> THEN [tag |-> "None"]
    ELSE parse_fields_space(bytes, Position(bytes, SP, 1))

\* TreeEntry::to_bytes: "<mode> <name>\0" followed by the hash field as is.
TreeEntry_to_bytes(e) ==
    ToDecimal(e.mode) \o <<SP>> \o e.name \o <<NUL>> \o e.hash

\* The hash field TreeEntry::from_bytes stores: hex::encode of the 20 bytes.
EntryHashField(raw) == HexEncode(raw)

\* TreeEntry::from_bytes, after the mode was parsed: &rest[..20] panics on
\* a shorter rest.
TreeEntry_of_mode(p, m) ==
    IF ~m.ok THEN [tag |-> "Err", err |-> "ParseMode"]
    ELSE IF Len(p.rest) < HashLen THEN [tag |-> "Panic", err |-> "slice"]
    ELSE [tag |-> "Some", err |-> "",
          entry |-> [mode |-> m.val, name |-> p.field2,
                     hash |-> EntryHashField(SubSeq(p.rest, 1, HashLen))],
          rest |-> SubSeq(p.rest, HashLen + 1, Len(p.rest))]

\* TreeEntry::from_bytes, after the fields were parsed.
TreeEntry_of_fields(p) ==
    CASE p.tag = "None" -> [tag |-> "None", err |-> ""]
      [] p.tag = "Err" -> [tag |-> "Err", err |-> p.err]
      [] OTHER -> TreeEntry_of_mode(p, ParseUsize(p.field1))

\* TreeEntry::from_bytes: "None" at the end of the body, "Err" from the
\* field parser or the mode, "Panic" when the hash is cut short.
TreeEntry_from_bytes(bytes) == TreeEntry_of_fields(parse_fields(bytes))

\* The while-let loop of Object::from_bytes over a tree body.
RECURSIVE TreeEntries_from_bytes(_, _)
RECURSIVE TreeEntries_step(_, _)
TreeEntries_step(r, entries) ==
    CASE r.tag = "None" -> [tag |-> "Ok", err |-> "", entries |-> entries]
      [] r.tag = "Some" -> TreeEntries_from_bytes(r.rest, Append(entries, r.entry))
      [] OTHER -> [tag |-> r.tag, err |-> r.err, entries |-> <<>>]

TreeEntries_from_bytes(bytes, entries) ==
    TreeEntries_step(TreeEntry_from_bytes(bytes), entries)

Blob(text) == [kind |-> "blob", content |-> text, entries |-> <<>>]
Commit(body) == [kind |-> "commit", content |-> body, entries |-> <<>>]
Tag == [kind |-> "tag", content |-> <<>>, entries |-> <<>>]
TreeObj(entries) == [kind |-> "tree", content |-> <<>>, entries |-> entries]

Decoded(obj) == [tag |-> "Ok", err |-> "", obj |-> obj]
NotDecoded(tag, err) == [tag |-> tag, err |-> err, obj |-> Tag]

\* Object::from_bytes, the "tree" arm after the entries were parsed.
Object_of_entries(r) ==
    IF r.tag = "Ok" THEN Decoded(TreeObj(r.entries)) ELSE NotDecoded(r.tag, r.err)

\* Object::from_bytes, after the header was parsed.  The size field
\* (p.field2) is bound to _size and never read.
Object_of_fields(p) ==
    CASE p.tag = "None" -> NotDecoded("Err", "NoBytes")
      [] p.tag = "Err" -> NotDecoded("Err", p.err)
      [] OTHER ->
        CASE p.field1 = S_blob ->
               IF IsUtf8(p.rest) THEN Decoded(Blob(p.rest))
               ELSE NotDecoded("Err", "Utf8Blob")
          [] p.field1 = S_commit -> Decoded(Commit(p.rest))
          [] p.field1 = S_tag -> Decoded(Tag)
          [] p.field1 = S_tree ->
               Object_of_entries(TreeEntries_from_bytes(p.rest, <<>>))
          [] OTHER -> NotDecoded("Err", "UnknownKind")

\* Object::from_bytes.
Object_from_bytes(bytes) == Object_of_fields(parse_fields(bytes))

\* Object::kind.
ObjKindBytes(o) ==
    CASE o.kind = "blob" -> S_blob
      [] o.kind = "tree" -> S_tree
      [] o.kind = "commit" -> S_commit
      [] o.kind = "tag" -> S_tag

RECURSIVE ConcatEntries(_)
ConcatEntries(entries) ==
    IF entries = <<>> THEN <<>>
    ELSE TreeEntry_to_bytes(Head(entries)) \o ConcatEntries(Tail(entries))

\* Object::content_bytes (Tag is unimplemented!(): never called on it here).
content_bytes(o) ==
    IF o.kind = "tree" THEN ConcatEntries(o.entries) ELSE o.content

\* format!("{} {}\x00", obj_type, contents.len()) followed by the contents.
Canonical(obj_type, contents) ==
    obj_type \o <<SP>> \o ToDecimal(Len(contents)) \o <<NUL>> \o contents

\* Object::to_bytes.
Object_to_bytes(o) == Canonical(ObjKindBytes(o), content_bytes(o))

\* Object::hash.
Object_hash(o) == Sha1(Object_to_bytes(o))

---------------------------------------------------------------------------
(* Paths and the filesystem                                                *)

RelPath(comps) == [abs |-> FALSE, comps |-> comps]
AbsPath(comps) == [abs |-> TRUE, comps |-> comps]

\* Path::join: an absolute argument replaces the base.
Join(base, p) ==
    IF p.abs THEN p ELSE [abs |-> base.abs, comps |-> base.comps \o p.comps]

JoinName(base, name) == [abs |-> base.abs, comps |-> Append(base.comps, name)]

\* The file a path names: the current directory is the repository root and
\* a "." component names the directory it stands in.
Resolve(p) == p.comps

DirNode == [kind |-> "dir", data |-> <<>>, exec |-> FALSE]
FileNode(data, exec) == [kind |-> "file", data |-> data, exec |-> exec]

Exists(f, c) == c \in DOMAIN f
IsDir(f, c) == c \in DOMAIN f /\ f[c].kind = "dir"
IsFile(f, c) == c \in DOMAIN f /\ f[c].kind = "file"
Parent(c) == SubSeq(c, 1, Len(c) - 1)
Put(f, c, node) == [x \in DOMAIN f \cup {c} |-> IF x = c THEN node ELSE f[x]]

\* fs::create_dir: fails when the path exists or its parent is no directory.
create_dir(f, c) ==
    IF c # <<>> /\ ~Exists(f, c) /\ IsDir(f, Parent(c))
    THEN [ok |-> TRUE, fs |-> Put(f, c, DirNode)]
    ELSE [ok |-> FALSE, fs |-> f]

\* fs::create_dir_all: creates the missing ancestors too; fine when the
\* directory exists, fails when a component is a file.
RECURSIVE create_dir_all(_, _)
create_dir_all(f, c) ==
    IF IsDir(f, c) THEN [ok |-> TRUE, fs |-> f]
    ELSE IF Exists(f, c) \/ c = <<>> THEN [ok |-> FALSE, fs |-> f]
    ELSE LET r == create_dir_all(f, Parent(c)) IN
         IF r.ok THEN [ok |-> TRUE, fs |-> Put(r.fs, c, DirNode)] ELSE r

\* A file opened for appending instead: created when missing, kept as it
\* is when it exists.
File_create_append(f, c) ==
    IF c # <<>> /\ IsDir(f, Parent(c)) /\ ~IsDir(f, c)
    THEN [ok |-> TRUE,
          fs |-> IF Exists(f, c) THEN f ELSE Put(f, c, FileNode(<<>>, FALSE))]
    ELSE [ok |-> FALSE, fs |-> f]

\* File::create: creates the file or truncates it; fails when the parent is
\* no directory or the path is a directory.
File_create(f, c) ==
    IF c # <<>> /\ IsDir(f, Parent(c)) /\ ~IsDir(f, c)
    THEN [ok |-> TRUE,
          fs |-> Put(f, c, FileNode(<<>>, IF Exists(f, c) THEN f[c].exec ELSE FALSE))]
    ELSE [ok |-> FALSE, fs |-> f]

\* Write::write_all on a file just created.
write_all(f, c, data) == [f EXCEPT ![c].data = @ \o data]

\* File::open + read_to_end: fails when the path is missing or a directory.
ReadFile(f, c) ==
    IF IsFile(f, c) THEN [ok |-> TRUE, data |-> f[c].data]
    ELSE [ok |-> FALSE, data |-> <<>>]

\* fs::read_dir(path): the names in the directory, in the order the
\* filesystem enumerates them (order: an enumeration of every name).
RECURSIVE ListDir(_, _, _)
ListDir(f, c, order) ==
    IF order = <<>> THEN <<>>
    ELSE IF Append(c, Head(order)) \in DOMAIN f
    THEN <<Head(order)>> \o ListDir(f, c, Tail(order))
    ELSE ListDir(f, c, Tail(order))

ObjectsDir(root) == JoinName(JoinName(root, S_git), S_objects)

\* The object file named by the whole hex hash, with no prefix directory.
ObjectPath_flat(root, hex) == JoinName(ObjectsDir(root), hex)

\* The path of the object file of a 40-character hex hash under a root.
ObjectPath(root, hex) ==
    JoinName(JoinName(ObjectsDir(root), SubSeq(hex, 1, 2)), SubSeq(hex, 3, Len(hex)))

---------------------------------------------------------------------------
(* git_object.rs: the object store and the tree builder                    *)

\* The result of an operation that failed, with the filesystem as the
\* operation left it.
Failed(f, err, log) ==
    [ok |-> FALSE, err |-> err, fs |-> f, hash |-> <<>>, log |-> log]

Written(root, digest, bytes) ==
    [root |-> Resolve(root), hash |-> digest, bytes |-> bytes]

\* The prefix directory created with fs::create_dir and no check that it
\* exists.
EnsureDir_create_dir(f, c) == create_dir(f, c)

\* if !dir_path.exists() { fs::create_dir_all(&dir_path)? }
EnsureDir(f, c) ==
    IF Exists(f, c) THEN [ok |-> TRUE, fs |-> f] ELSE create_dir_all(f, c)

\* file.write_all(&compressed) on the file File::create returned.
Store_write(cr, c, root, digest, bytes) ==
    IF ~cr.ok THEN Failed(cr.fs, "FileCreate", <<>>)
    ELSE [ok |-> TRUE, err |-> "",
          fs |-> write_all(cr.fs, c, ZlibCompress(bytes)),
          hash |-> digest,
          log |-> <<Written(root, digest, bytes)>>]

\* File::create(file_path) once the prefix directory is there.
Store_create(d, c, root, digest, bytes) ==
    IF ~d.ok THEN Failed(d.fs, "CreateDir", <<>>)
    ELSE Store_write(File_create(d.fs, c), c, root, digest, bytes)

\* The body that Object::write and write_obj share line for line: split the
\* hex hash at 2, create the prefix directory if it does not exist, create
\* the object file, write the compressed canonical bytes.
Store(f, root, digest, bytes, hash) ==
    Store_create(EnsureDir(f, Resolve(JoinName(ObjectsDir(root), SubSeq(hash, 1, 2)))),
                 Resolve(ObjectPath(root, hash)), root, digest, bytes)

\* Object::write.
Object_write_hashed(f, o, root, digest) ==
    Store(f, root, digest, Object_to_bytes(o), HexEncode(digest))

Object_write(f, o, root) == Object_write_hashed(f, o, root, Object_hash(o))

\* Object::blobify: File::open + read_to_string, which fails on bytes that
\* are not UTF-8.
blobify_read(r) ==
    IF r.ok /\ IsUtf8(r.data) THEN [ok |-> TRUE, obj |-> Blob(r.data)]
    ELSE [ok |-> FALSE, obj |-> Blob(<<>>)]

blobify(f, file) == blobify_read(ReadFile(f, Resolve(file)))

BlobNode(name, obj, is_executable) ==
    [name |-> name, kind |-> "blob", obj |-> obj,
     is_executable |-> is_executable, sub |-> <<>>]
TreeNode(name, sub) ==
    [name |-> name, kind |-> "tree", obj |-> Blob(<<>>),
     is_executable |-> FALSE, sub |-> sub]

\* The executable bit left out of the mode.
TreeNodeKind_mode_no_exec(node) == IF node.kind = "blob" THEN 100644 ELSE 40000

\* TreeNodeKind::mode.
TreeNodeKind_mode(node) ==
    IF node.kind = "blob"
    THEN (IF node.is_executable THEN 100755 ELSE 100644)
    ELSE 40000

\* Tree::from_working_directory: the loop over read_dir's entries (an entry
\* that is a directory, an entry that is a file), then the function itself.
RECURSIVE from_working_directory(_, _, _)
RECURSIVE fwd_loop(_, _, _, _, _)

fwd_dir(f, path, names, order, tree, sub_tree) ==
    IF ~sub_tree.ok THEN sub_tree
    ELSE fwd_loop(f, path, Tail(names), order,
                  Append(tree, TreeNode(Head(names), sub_tree.tree)))

fwd_file(f, path, names, order, tree, blob, is_executable) ==
    IF ~blob.ok THEN [ok |-> FALSE, err |-> "Blobify", tree |-> <<>>]
    ELSE fwd_loop(f, path, Tail(names), order,
                  Append(tree, BlobNode(Head(names), blob.obj, is_executable)))

fwd_entry(f, path, names, order, tree, entry) ==
    IF IsDir(f, Resolve(entry))
    THEN fwd_dir(f, path, names, order, tree,
                 from_working_directory(f, entry, order))
    ELSE fwd_file(f, path, names, order, tree, blobify(f, entry),
                  f[Resolve(entry)].exec)

fwd_loop(f, path, names, order, tree) ==
    IF names = <<>> THEN [ok |-> TRUE, err |-> "", tree |-> tree]
    ELSE IF ~IsUtf8(Head(names)) \/ StartsWithDot(Head(names))
    THEN fwd_loop(f, path, Tail(names), order, tree)
    ELSE fwd_entry(f, path, names, order, tree, JoinName(path, Head(names)))

from_working_directory(f, path, order) ==
    IF ~IsDir(f, Resolve(path))
    THEN [ok |-> FALSE, err |-> "ReadDir", tree |-> <<>>]
    ELSE fwd_loop(f, path, ListDir(f, Resolve(path), order), order, <<>>)

\* Insertion of one record into a sequence sorted by name.
RECURSIVE InsertByName(_, _)
InsertByName(sorted, e) ==
    IF sorted = <<>> THEN <<e>>
    ELSE IF BytesLess(e.name, Head(sorted).name) THEN <<e>> \o sorted
    ELSE <<Head(sorted)>> \o InsertByName(Tail(sorted), e)

RECURSIVE SortedByName(_, _)
SortedByName(entries, acc) ==
    IF entries = <<>> THEN acc
    ELSE SortedByName(Tail(entries), InsertByName(acc, Head(entries)))

\* sort_unstable_by_key(|e| e.name.clone()): ascending String order.  The
\* names of one directory are distinct, so the result is unique.
\* The entries left in the order they were enumerated in.
sort_by_name_unsorted(entries) == entries

sort_by_name(entries) == SortedByName(entries, <<>>)

\* The hash Tree::write records for a blob node: obj.hash(), with no write.
BlobNodeHash(f, node, root) ==
    [ok |-> TRUE, err |-> "", fs |-> f, hash |-> Object_hash(node.obj),
     log |-> <<>>]

\* Tree::write: the loop over the nodes, then the sort and the write of the
\* Tree object.
RECURSIVE Tree_write(_, _, _)
RECURSIVE tw_loop(_, _, _, _, _)

tw_node(nodes, root, entries, log, r) ==
    IF ~r.ok
    THEN [ok |-> FALSE, err |-> r.err, fs |-> r.fs, entries |-> entries,
          log |-> log \o r.log]
    ELSE tw_loop(r.fs, Tail(nodes), root,
                 Append(entries, [mode |-> TreeNodeKind_mode(Head(nodes)),
                                  name |-> Head(nodes).name, hash |-> r.hash]),
                 log \o r.log)

tw_loop(f, nodes, root, entries, log) ==
    IF nodes = <<>>
    THEN [ok |-> TRUE, err |-> "", fs |-> f, entries |-> entries, log |-> log]
    ELSE tw_node(nodes, root, entries, log,
                 IF Head(nodes).kind = "blob"
                 THEN BlobNodeHash(f, Head(nodes), root)
                 ELSE Tree_write(f, Head(nodes).sub, root))

Tree_written(l, w) ==
    [ok |-> w.ok, err |-> w.err, fs |-> w.fs, hash |-> w.hash,
     log |-> l.log \o w.log]

Tree_write_object(l, tree, root) ==
    Tree_written(l, Object_write_hashed(l.fs, tree, root, Object_hash(tree)))

Tree_write_sorted(l, root) ==
    IF ~l.ok THEN Failed(l.fs, l.err, l.log)
    ELSE Tree_write_object(l, TreeObj(sort_by_name(l.entries)), root)

Tree_write(f, tree, root) ==
    Tree_write_sorted(tw_loop(f, tree, root, <<>>, <<>>), root)

---------------------------------------------------------------------------
(* lib.rs: write_obj, write_blob, read_dir, read_object                    *)

\* write_obj: hash the canonical bytes, then the steps of Object::write.
write_obj_hashed(f, obj, path, hash_bytes) ==
    Store(f, path, hash_bytes, obj, HexEncode(hash_bytes))

write_obj(f, obj, path) == write_obj_hashed(f, obj, path, Sha1(obj))

\* The file's bytes written with no header.
write_blob_read_no_header(f, r, path) ==
    IF ~r.ok THEN Failed(f, "Open", <<>>) ELSE write_obj(f, r.data, path)

\* write_blob: File::open(path.join(file)), read_to_end, prepend the header,
\* write_obj under path.
write_blob_read(f, r, path) ==
    IF ~r.ok THEN Failed(f, "Open", <<>>)
    ELSE write_obj(f, Canonical(S_blob, r.data), path)

write_blob(f, file, path) ==
    write_blob_read(f, ReadFile(f, Resolve(Join(path, file))), path)

RECURSIVE ConcatRecords(_)
ConcatRecords(tree) ==
    IF tree = <<>> THEN <<>>
    ELSE Head(tree).mode \o <<SP>> \o Head(tree).name \o <<NUL>>
           \o Head(tree).hash \o ConcatRecords(Tail(tree))

\* read_dir: the loop over the entries, then the sort, the serialization
\* and the write of the tree under path.
RECURSIVE read_dir(_, _, _)
RECURSIVE rd_loop(_, _, _, _, _, _)

rd_push(path, names, order, tree, log, mode, r) ==
    IF ~r.ok
    THEN [ok |-> FALSE, err |-> r.err, fs |-> r.fs, tree |-> tree,
          log |-> log \o r.log]
    ELSE rd_loop(r.fs, path, Tail(names), order,
                 Append(tree, [mode |-> mode, name |-> Head(names),
                               hash |-> r.hash]),
                 log \o r.log)

rd_entry(f, path, names, order, tree, log, entry) ==
    IF IsDir(f, Resolve(entry))
    THEN rd_push(path, names, order, tree, log, S_40000,
                 read_dir(f, entry, order))
    ELSE rd_push(path, names, order, tree, log,
                 IF f[Resolve(entry)].exec THEN S_100755 ELSE S_100644,
                 write_blob(f, entry, path))

rd_loop(f, path, names, order, tree, log) ==
    IF names = <<>>
    THEN [ok |-> TRUE, err |-> "", fs |-> f, tree |-> tree, log |-> log]
    ELSE IF ~IsUtf8(Head(names)) \/ StartsWithDot(Head(names))
    THEN rd_loop(f, path, Tail(names), order, tree, log)
    ELSE rd_entry(f, path, names, order, tree, log, JoinName(path, Head(names)))

read_dir_serialized(l, tree, path) ==
    Tree_written(l, write_obj(l.fs, Canonical(S_tree, tree), path))

read_dir_sorted(l, path) ==
    IF ~l.ok THEN Failed(l.fs, l.err, l.log)
    ELSE read_dir_serialized(l, ConcatRecords(sort_by_name(l.tree)), path)

read_dir(f, path, order) ==
    IF ~IsDir(f, Resolve(path)) THEN Failed(f, "ReadDir", <<>>)
    ELSE read_dir_sorted(rd_loop(f, path, ListDir(f, Resolve(path), order),
                                 order, <<>>, <<>>), path)

\* read_object: slice the hash at 2 (a panic when it is shorter), open the
\* object file, decompress all of it.
read_object_inflate(z) ==
    IF ~z.ok THEN [tag |-> "Err", err |-> "Decompress", data |-> <<>>]
    ELSE [tag |-> "Ok", err |-> "", data |-> z.data]

read_object_open(file) ==
    IF ~file.ok THEN [tag |-> "Err", err |-> "ObjectNotFound", data |-> <<>>]
    ELSE read_object_inflate(ZlibDecompress(file.data))

read_object(f, sha, path) ==
    IF Len(sha) < 2 THEN [tag |-> "Panic", err |-> "slice", data |-> <<>>]
    ELSE read_object_open(ReadFile(f, Resolve(ObjectPath(path, sha))))

RECURSIVE EntryNames(_)
EntryNames(entries) ==
    IF entries = <<>> THEN <<>>
    ELSE Head(entries).name \o <<10>> \o EntryNames(Tail(entries))

\* GitObject::from_bytes (the git_object.rs that lib.rs was written
\* against): the decoded kind and the contents; a tree's contents are its
\* entry names, one per line.
GitObject_of(r) ==
    IF r.tag # "Ok"
    THEN [tag |-> "Err", err |-> IF r.tag = "Panic" THEN "TruncatedEntry" ELSE r.err,
          obj_type |-> "", contents |-> <<>>]
    ELSE [tag |-> "Ok", err |-> "", obj_type |-> r.obj.kind,
          contents |-> IF r.obj.kind = "tree" THEN EntryNames(r.obj.entries)
                       ELSE r.obj.content]

GitObject_from_bytes(bytes) == GitObject_of(Object_from_bytes(bytes))

---------------------------------------------------------------------------
(* The inputs of the model                                                 *)

N_a == <<97>>
N_ab == <<97, 98>>
N_B == <<66>>
N_h == <<46, 104>>
T_hi == <<104, 105>>
T_ho == <<104, 111>>
T_hd == <<104, 100>>
T_bin == <<255>>

\* The visible names a working directory may hold.
WorkNames == {N_a, N_ab, N_B}

RECURSIVE Perms(_)
Perms(S) ==
    IF S = {} THEN {<<>>}
    ELSE UNION {{<<x>> \o p : p \in Perms(S \ {x})} : x \in S}

\* The orders in which the filesystem may enumerate the names of a layout:
\* the hidden names, then the visible names it holds in any order.
VisibleNames(f) == {n \in WorkNames : \E c \in DOMAIN f : c # <<>> /\ c[Len(c)] = n}
Orders(f) == {<<S_git, N_h>> \o p : p \in Perms(VisibleNames(f))}

MkFs(S) == [c \in {p[1] : p \in S} |-> (CHOOSE p \in S : p[1] = c)[2]]

\* The working directories the model starts from (no .git yet).
L_empty == MkFs({<< <<>>, DirNode >>})
L_flat == MkFs({<< <<>>, DirNode >>,
                << <<N_a>>, FileNode(T_hi, FALSE) >>,
                << <<N_ab>>, FileNode(T_ho, FALSE) >>,
                << <<N_B>>, FileNode(<<>>, TRUE) >>,
                << <<N_h>>, FileNode(T_hd, FALSE) >>})
L_nested == MkFs({<< <<>>, DirNode >>,
                  << <<N_a>>, FileNode(T_hi, FALSE) >>,
                  << <<N_ab>>, DirNode >>,
                  << <<N_ab, N_a>>, FileNode(<<>>, FALSE) >>,
                  << <<N_ab, N_B>>, FileNode(T_hi, TRUE) >>,
                  << <<N_B>>, DirNode >>})
L_deep == MkFs({<< <<>>, DirNode >>,
                << <<N_ab>>, DirNode >>,
                << <<N_ab, N_a>>, FileNode(<<>>, FALSE) >>,
                << <<N_ab, N_ab>>, DirNode >>,
                << <<N_ab, N_ab, N_a>>, FileNode(T_hi, FALSE) >>,
                << <<N_ab, N_h>>, DirNode >>,
                << <<N_ab, N_h, N_a>>, FileNode(T_hd, FALSE) >>})
L_bin == MkFs({<< <<>>, DirNode >>,
               << <<N_B>>, FileNode(T_hi, FALSE) >>,
               << <<N_a>>, FileNode(T_bin, FALSE) >>})

Layouts == {L_empty, L_flat, L_nested, L_deep, L_bin}

\* The number of commands in one run of the model.
MaxCommands == 3

\* The repository root as a command gets it: "." from the commands of
\* lib.rs, the absolute path of the same directory from its tests.
DotRoot == RelPath(<<>>)
Roots == {DotRoot, AbsPath(<<>>)}

\* The files hash-object is asked for.
HashFiles == {RelPath(<<N_a>>), RelPath(<<N_ab, N_a>>)}

\* The objects written through Object::write directly.
DirectObjects ==
    {Blob(T_hi), Commit(T_bin),
     TreeObj(<<[mode |-> 100644, name |-> N_a, hash |-> Object_hash(Blob(T_hi))]>>)}

\* The hashes of the object files in the store under a root, as hex.
StoredShas(f, root) ==
    {c[Len(c) - 1] \o c[Len(c)] :
        c \in {x \in DOMAIN f : /\ Len(x) = Len(Resolve(ObjectsDir(root))) + 2
                                 /\ Parent(Parent(x)) = Resolve(ObjectsDir(root))
                                 /\ f[x].kind = "file"}}

AbsentSha == HexEncode(Sha1(<<1>>))

\* The hashes cat-file and ls-tree are asked for.
Shas(f, root) == StoredShas(f, root) \cup {AbsentSha}

---------------------------------------------------------------------------
(* The commands                                                            *)

NoObj == Blob(<<>>)
NoFile == RelPath(<<>>)

Result(cmd, ok, err, root, file, sha, obj, hash) ==
    [cmd |-> cmd, ok |-> ok, err |-> err, root |-> root, file |-> file,
     sha |-> sha, obj |-> obj, hash |-> hash]

\* A command that may write the store: its result r, the file it was asked
\* for, and whether it writes the hex hash to its writer.
Wrote(cmd, r, root, file, obj, prints) ==
    /\ ncmd < MaxCommands
    /\ ncmd' = ncmd + 1
    /\ before' = fs
    /\ fs' = r.fs
    /\ res' = Result(cmd, r.ok, r.err, root, file, <<>>, obj, r.hash)
    /\ out' = IF prints /\ r.ok THEN HexEncode(r.hash) ELSE <<>>
    /\ wlog' = r.log
    /\ UNCHANGED <<enum, cin, cout>>

\* A command that only reads the store.
Listed(cmd, r, root, sha) ==
    /\ ncmd < MaxCommands
    /\ ncmd' = ncmd + 1
    /\ before' = fs
    /\ res' = Result(cmd, r.ok, r.err, root, NoFile, sha, NoObj, <<>>)
    /\ out' = r.out
    /\ wlog' = <<>>
    /\ UNCHANGED <<fs, enum, cin, cout>>

\* _git_init: create .git, .git/objects, .git/refs, write .git/HEAD; the
\* first failure returns with what was created so far.
git_init_head(r4, dot_git) ==
    IF ~r4.ok THEN Failed(r4.fs, "Create HEAD file", <<>>)
    ELSE [ok |-> TRUE, err |-> "",
          fs |-> write_all(r4.fs, Resolve(JoinName(dot_git, S_HEAD)), S_headref),
          hash |-> <<>>, log |-> <<>>]

git_init_refs(r3, dot_git) ==
    IF ~r3.ok THEN Failed(r3.fs, "Create refs directory", <<>>)
    ELSE git_init_head(File_create(r3.fs, Resolve(JoinName(dot_git, S_HEAD))), dot_git)

\* The refs directory left out.
git_init_objects_no_refs(r2, dot_git) ==
    IF ~r2.ok THEN Failed(r2.fs, "Create objects directory", <<>>)
    ELSE git_init_refs([ok |-> TRUE, fs |-> r2.fs], dot_git)

git_init_objects(r2, dot_git) ==
    IF ~r2.ok THEN Failed(r2.fs, "Create objects directory", <<>>)
    ELSE git_init_refs(create_dir(r2.fs, Resolve(JoinName(dot_git, S_refs))), dot_git)

git_init_dot_git(r1, dot_git) ==
    IF ~r1.ok THEN Failed(r1.fs, "Create .git directory", <<>>)
    ELSE git_init_objects(create_dir(r1.fs, Resolve(JoinName(dot_git, S_objects))),
                          dot_git)

git_init(f, path) ==
    git_init_dot_git(create_dir(f, Resolve(JoinName(path, S_git))),
                     JoinName(path, S_git))

GitInit(path) == Wrote("init", git_init(fs, path), path, NoFile, NoObj, FALSE)

\* _git_hash_object: write_blob, then the hex hash to the writer.
GitHashObject(file, path) ==
    Wrote("hash-object", write_blob(fs, file, path), path, file, NoObj, TRUE)

\* _git_write_tree: read_dir, then the hex hash to the writer.
GitWriteTree(path) ==
    Wrote("write-tree", read_dir(fs, path, enum), path, NoFile, NoObj, TRUE)

\* Tree::from_working_directory(root) followed by Tree::write(root).
tree_snapshot_built(f, t, root) ==
    IF ~t.ok THEN Failed(f, t.err, <<>>) ELSE Tree_write(f, t.tree, root)

tree_snapshot(f, root, order) ==
    tree_snapshot_built(f, from_working_directory(f, root, order), root)

TreeSnapshot(root) ==
    Wrote("tree-write", tree_snapshot(fs, root, enum), root, NoFile, NoObj, FALSE)

\* Object::write of an object built in memory.
ObjectWrite(o, root) ==
    Wrote("object-write", Object_write(fs, o, root), root, NoFile, o, FALSE)

\* _git_cat_file (lib.rs): read the object, decode it, write its contents.
cat_file_decoded(object) ==
    IF object.tag # "Ok" THEN [ok |-> FALSE, err |-> object.err, out |-> <<>>]
    ELSE [ok |-> TRUE, err |-> "", out |-> object.contents]

cat_file_read(object_bytes) ==
    IF object_bytes.tag # "Ok"
    THEN [ok |-> FALSE, err |-> object_bytes.err, out |-> <<>>]
    ELSE cat_file_decoded(GitObject_from_bytes(object_bytes.data))

cat_file(f, blob_sha, path) == cat_file_read(read_object(f, blob_sha, path))

GitCatFile(blob_sha, path) ==
    Listed("cat-file", cat_file(fs, blob_sha, path), path, blob_sha)

\* _git_ls_tree (lib.rs): read the object, decode it, fail unless it is a
\* tree, write its contents.
ls_tree_decoded(object) ==
    IF object.tag # "Ok" THEN [ok |-> FALSE, err |-> object.err, out |-> <<>>]
    ELSE IF object.obj_type # "tree"
    THEN [ok |-> FALSE, err |-> "TypeMismatch", out |-> <<>>]
    ELSE [ok |-> TRUE, err |-> "", out |-> object.contents]

ls_tree_read(object_bytes) ==
    IF object_bytes.tag # "Ok"
    THEN [ok |-> FALSE, err |-> object_bytes.err, out |-> <<>>]
    ELSE ls_tree_decoded(GitObject_from_bytes(object_bytes.data))

ls_tree(f, tree_sha, path) == ls_tree_read(read_object(f, tree_sha, path))

GitLsTree(tree_sha, path) ==
    Listed("ls-tree", ls_tree(fs, tree_sha, path), path, tree_sha)

\* git_ls_tree (main.rs, the binary's ls-tree): returns Ok(()) and reads
\* nothing.
main_ls_tree(f, tree_sha) == [ok |-> TRUE, err |-> "", out |-> <<>>]

MainLsTree(tree_sha) ==
    Listed("main-ls-tree", main_ls_tree(fs, tree_sha), DotRoot, tree_sha)

NoCodec == [op |-> "none", obj |-> NoObj, bytes |-> <<>>]
NoResult == NotDecoded("None", "")

Init ==
    /\ fs \in Layouts
    /\ before = fs
    /\ enum \in Orders(fs)
    /\ ncmd = 0
    /\ res = Result("none", TRUE, "", DotRoot, NoFile, <<>>, NoObj, <<>>)
    /\ out = <<>>
    /\ wlog = <<>>
    /\ cin = NoCodec
    /\ cout = NoResult

Next ==
    \/ GitInit(DotRoot)
    \/ \E file \in HashFiles : GitHashObject(file, DotRoot)
    \/ \E path \in Roots : GitWriteTree(path)
    \/ TreeSnapshot(DotRoot)
    \/ \E o \in DirectObjects : ObjectWrite(o, DotRoot)
    \/ \E sha \in Shas(fs, DotRoot) : GitCatFile(sha, DotRoot)
    \/ \E sha \in Shas(fs, DotRoot) : GitLsTree(sha, DotRoot)
    \/ \E sha \in Shas(fs, DotRoot) : MainLsTree(sha)

Spec == Init /\ [][Next]_vars

---------------------------------------------------------------------------
(* The codec on its own: objects encoded and decoded, buffers decoded      *)

\* The number of entries of the trees that are encoded.
MaxEntries == 2

H_hi == Object_hash(Blob(T_hi))
\* A digest that holds the two delimiter bytes.
H_delims == <<0, 32, 0, 32, 10, 255, 48, 49, 0, 32, 0, 32, 10, 255, 48, 49, 0, 0, 32, 32>>

N_a_b == <<97, 32, 98>>
T_utf8 == <<195, 169, 10>>

EntryModes == {100644, 100755, 40000}
EntryNamesSet == {N_a, N_B, N_a_b}
EntryHashes == {H_hi, H_delims}
Entries == [mode : EntryModes, name : EntryNamesSet, hash : EntryHashes]

IsSortedByName(entries) ==
    \A i \in 1..(Len(entries) - 1) : BytesLess(entries[i].name, entries[i + 1].name)

\* The trees the Tree Builder can build: entries with distinct names, sorted.
Trees ==
    {TreeObj(es) : es \in {x \in UNION {[1..n -> Entries] : n \in 0..MaxEntries} :
                              IsSortedByName(x)}}

\* The objects this system can construct: a Blob holds a String, a Commit
\* any bytes, a Tree the entries Tree::write gives it.
CodecObjects ==
    {Blob(t) : t \in {<<>>, T_hi, N_a_b, T_utf8, <<0>>}}
        \cup {Commit(t) : t \in {<<>>, T_hi, T_bin, <<0, 32>>}}
        \cup Trees

SizeFields == {<<48>>, <<50>>, <<53>>, <<48, 50>>, <<43, 50>>, <<45, 50>>, <<120>>, <<>>}
E_a == TreeEntry_to_bytes([mode |-> 100644, name |-> N_a, hash |-> H_hi])
Bodies ==
    {<<>>, T_hi, T_bin, E_a,
     SubSeq(E_a, 1, Len(E_a) - 1),
     SubSeq(E_a, 1, Len(E_a) - HashLen),
     E_a \o SubSeq(E_a, 1, Len(E_a) - 1)}

\* The buffers that are decoded: a kind, a size field, a body.
DecodeInputs ==
    {k \o <<SP>> \o sz \o <<NUL>> \o body :
        k \in {S_blob, S_commit, S_tree}, sz \in SizeFields, body \in Bodies}

\* Object::from_bytes(&o.to_bytes()).
RoundTrip(o) ==
    /\ cin.op = "none"
    /\ cin' = [op |-> "roundtrip", obj |-> o, bytes |-> Object_to_bytes(o)]
    /\ cout' = Object_from_bytes(Object_to_bytes(o))
    /\ UNCHANGED <<fs, before, res, out, wlog, enum, ncmd>>

\* Object::from_bytes(bytes).
Decode(bytes) ==
    /\ cin.op = "none"
    /\ cin' = [op |-> "decode", obj |-> NoObj, bytes |-> bytes]
    /\ cout' = Object_from_bytes(bytes)
    /\ UNCHANGED <<fs, before, res, out, wlog, enum, ncmd>>

\* The buffers parse_fields is given: every sequence of at most MaxBuf bytes
\* out of a space, a NUL, a letter, a byte that is never UTF-8, and the two
\* bytes of one UTF-8 character.
MaxBuf == 4
BufBytes == {SP, NUL, 97, 255, 195, 169}
Buffers == UNION {[1..n -> BufBytes] : n \in 0..MaxBuf}

\* parse_fields(bytes).
ParseFields(bytes) ==
    /\ cin.op = "none"
    /\ cin' = [op |-> "parse_fields", obj |-> NoObj, bytes |-> bytes]
    /\ cout' = parse_fields(bytes)
    /\ UNCHANGED <<fs, before, res, out, wlog, enum, ncmd>>

InitCodec ==
    /\ fs = L_empty
    /\ before = fs
    /\ enum = <<>>
    /\ ncmd = 0
    /\ res = Result("none", TRUE, "", DotRoot, NoFile, <<>>, NoObj, <<>>)
    /\ out = <<>>
    /\ wlog = <<>>
    /\ cin = NoCodec
    /\ cout = NoResult

NextCodec ==
    \/ \E o \in CodecObjects : RoundTrip(o)
    \/ \E bytes \in DecodeInputs : Decode(bytes)
    \/ \E bytes \in Buffers : ParseFields(bytes)

SpecCodec == InitCodec /\ [][NextCodec]_vars

---------------------------------------------------------------------------
(* Properties of the codec                                                 *)

SameObject(a, b) ==
    /\ a.kind = b.kind
    /\ a.content = b.content
    /\ a.entries = b.entries

\* C1: decoding the encoding of an object gives an object equal to it, the
\* same variant with the same content (a Blob's text, a Commit's bytes, a
\* Tree's entries with their modes, names and 20-byte hashes).
C1_RoundTrip ==
    cin.op = "roundtrip" =>
        /\ cout.tag = "Ok"
        /\ SameObject(cout.obj, cin.obj)
        /\ Object_to_bytes(cout.obj) = cin.bytes

\* What does hold: blobs, commits and the empty tree come back equal.
C1_RoundTripNoEntries ==
    cin.op = "roundtrip" /\ cin.obj.entries = <<>> =>
        /\ cout.tag = "Ok"
        /\ SameObject(cout.obj, cin.obj)

\* A tree with an entry was encoded and decoded, and came back with a
\* 40-byte hash field.
C1_TreeDecoded ==
    /\ cin.op = "roundtrip"
    /\ cin.obj.kind = "tree"
    /\ cin.obj.entries # <<>>
    /\ cout.tag = "Ok"
    /\ Len(cout.obj.entries[1].hash) = 2 * HashLen

IsDecimal(s) == s # <<>> /\ \A i \in 1..Len(s) : IsDigit(s[i])

SizeMatches(p) ==
    /\ p.tag = "Some"
    /\ IsDecimal(p.field2)
    /\ DigitsValue(p.field2, 0) = Len(p.rest)

\* C10: a buffer whose size field is not a non-negative decimal integer, or
\* differs from the number of bytes after the NUL, is not decoded into an
\* object.
C10_SizeValidated ==
    cin.op = "decode" /\ ~SizeMatches(parse_fields(cin.bytes)) => cout.tag # "Ok"

\* A buffer with a wrong size field was decoded into an object.
C10_WrongSizeDecoded ==
    /\ cin.op = "decode"
    /\ ~SizeMatches(parse_fields(cin.bytes))
    /\ cout.tag = "Ok"

---------------------------------------------------------------------------
(* Properties of the commands                                              *)

\* The last command built and wrote the tree of a directory.
TreeCommand == res.cmd \in {"write-tree", "tree-write"}

IsTreeRecord(rec) == SubSeq(rec.bytes, 1, Len(S_tree) + 1) = S_tree \o <<SP>>

\* The entries in the canonical bytes of a written tree: mode, name, and
\* the 20 raw bytes of the hash.
RECURSIVE RawEntries(_, _)
RawEntriesAt(b, from, sp, nul) ==
    <<[mode |-> SubSeq(b, from, sp - 1),
       name |-> SubSeq(b, sp + 1, nul - 1),
       hash |-> SubSeq(b, nul + 1, nul + HashLen)]>>
        \o RawEntries(b, nul + HashLen + 1)
RawEntriesFrom(b, from, sp) == RawEntriesAt(b, from, sp, Position(b, NUL, sp + 1))
RawEntries(b, from) ==
    IF from > Len(b) THEN <<>> ELSE RawEntriesFrom(b, from, Position(b, SP, from))

RecordEntries(rec) == RawEntries(rec.bytes, Position(rec.bytes, NUL, 1) + 1)

\* The object file of a digest, under the store of a root directory.
StoreFile(root, hex) ==
    root \o <<S_git, S_objects, SubSeq(hex, 1, 2), SubSeq(hex, 3, 2 * HashLen)>>
StoreHas(f, root, digest) == IsFile(f, StoreFile(root, HexEncode(digest)))

BlobsStored(f, root, entries) ==
    \A k \in 1..Len(entries) :
        entries[k].mode # S_40000 => StoreHas(f, root, entries[k].hash)

\* C2: after a tree write succeeded, every blob that the tree or one of its
\* subtrees refers to is an object in the store of the same root.
C2_ReferenceClosure ==
    TreeCommand /\ res.ok =>
        \A i \in 1..Len(wlog) :
            IsTreeRecord(wlog[i]) =>
                BlobsStored(fs, Resolve(res.root), RecordEntries(wlog[i]))

\* A tree with a file entry was written and the file's blob is not in the
\* store.
C2_BlobMissing ==
    /\ TreeCommand
    /\ res.ok
    /\ \E i \in 1..Len(wlog) :
        /\ IsTreeRecord(wlog[i])
        /\ ~BlobsStored(fs, Resolve(res.root), RecordEntries(wlog[i]))

WrittenBefore(log, i, root, digest) ==
    \E j \in 1..(i - 1) : log[j].hash = digest /\ log[j].root = root

SubtreesFirst(log, i, entries) ==
    \A k \in 1..Len(entries) :
        entries[k].mode = S_40000 => WrittenBefore(log, i, log[i].root, entries[k].hash)

\* C3: a tree object is written only after each subtree it refers to was
\* written, by the same command and under the same root.
C3_SubtreesFirst ==
    TreeCommand =>
        \A i \in 1..Len(wlog) :
            IsTreeRecord(wlog[i]) => SubtreesFirst(wlog, i, RecordEntries(wlog[i]))

\* A tree with a subtree entry was written, the subtree under another root.
C3_SubtreeElsewhere ==
    /\ TreeCommand
    /\ \E i \in 1..Len(wlog) :
        /\ IsTreeRecord(wlog[i])
        /\ ~SubtreesFirst(wlog, i, RecordEntries(wlog[i]))

\* The bytes read from the store decode to an object that is not a tree.
DecodesToNonTree(d) == d.tag = "Ok" /\ d.obj.kind # "tree"
StoredNonTree(r) == r.tag = "Ok" /\ DecodesToNonTree(Object_from_bytes(r.data))

LsTreeCommand == res.cmd \in {"ls-tree", "main-ls-tree"}

\* C8: ls-tree of a hash whose stored object is not a tree (a blob, a
\* commit) fails with the type mismatch error and writes nothing.
C8_TypeMismatch ==
    LsTreeCommand /\ StoredNonTree(read_object(fs, res.sha, res.root)) =>
        /\ ~res.ok
        /\ res.err = "TypeMismatch"
        /\ out = <<>>

\* ls-tree of a stored object that is not a tree succeeded.
C8_NonTreeListed ==
    /\ LsTreeCommand
    /\ StoredNonTree(read_object(fs, res.sha, res.root))
    /\ res.ok

\* What does hold: the library's ls-tree fails so.
C8_LibTypeMismatch ==
    res.cmd = "ls-tree" /\ StoredNonTree(read_object(fs, res.sha, res.root)) =>
        /\ ~res.ok
        /\ res.err = "TypeMismatch"
        /\ out = <<>>

\* C9: a command that returns an error leaves the filesystem as it was
\* when the command started.
C9_FailureChangesNothing == ~res.ok => fs = before

\* A command failed after it had written.
C9_FailedAfterWriting == ~res.ok /\ fs # before

\* The enumeration of a layout that lists the visible names in ascending
\* byte order.
AscendingOrder(f) ==
    CHOOSE o \in Orders(f) : \A i \in 3..(Len(o) - 1) : BytesLess(o[i], o[i + 1])

\* The last tree command, run again from the same filesystem with the names
\* enumerated in ascending order.
InAscendingOrder ==
    IF res.cmd = "write-tree" THEN read_dir(before, res.root, AscendingOrder(before))
    ELSE tree_snapshot(before, res.root, AscendingOrder(before))

TreeRecords(log) == {log[i] : i \in {j \in 1..Len(log) : IsTreeRecord(log[j])}}

SameTrees(r) ==
    /\ r.ok
    /\ r.hash = res.hash
    /\ TreeRecords(r.log) = TreeRecords(wlog)

\* C4: the entries of every tree written by a tree command are in
\* ascending byte order of their names, and the trees written and the hash
\* returned are the ones any other enumeration order of the same directory
\* gives.
C4_SortedTrees ==
    TreeCommand =>
        /\ \A i \in 1..Len(wlog) :
               IsTreeRecord(wlog[i]) => IsSortedByName(RecordEntries(wlog[i]))
        /\ res.ok => SameTrees(InAscendingOrder)

\* A tree of two entries or more was written from a directory that was not
\* enumerated in ascending order.
C4_SortedFromUnsorted ==
    /\ TreeCommand
    /\ res.ok
    /\ enum # AscendingOrder(before)
    /\ \E i \in 1..Len(wlog) :
        /\ IsTreeRecord(wlog[i])
        /\ Len(RecordEntries(wlog[i])) >= 2
        /\ ListDir(before, wlog[i].root, enum)
               # ListDir(before, wlog[i].root, AscendingOrder(before))

\* A file of some object store: <root>/.git/objects/<2 hex>/<38 hex>.
IsObjectFile(f, c) ==
    /\ Len(c) >= 4
    /\ c[Len(c) - 3] = S_git
    /\ c[Len(c) - 2] = S_objects
    /\ f[c].kind = "file"

KeptAsWritten(rec) ==
    IsFile(before, StoreFile(rec.root, HexEncode(rec.hash))) =>
        /\ IsFile(fs, StoreFile(rec.root, HexEncode(rec.hash)))
        /\ fs[StoreFile(rec.root, HexEncode(rec.hash))]
               = before[StoreFile(rec.root, HexEncode(rec.hash))]

\* C6: writing an object that the store holds already succeeds and leaves
\* the one file at the same path with the same bytes; no write fails
\* because the file or its prefix directory exists.
C6_IdempotentWrite ==
    /\ res.cmd = "object-write"
            /\ StoreHas(before, Resolve(res.root), Object_hash(res.obj)) =>
                res.ok /\ fs = before
    /\ \A i \in 1..Len(wlog) : KeptAsWritten(wlog[i])
    /\ res.err \notin {"CreateDir", "FileCreate"}

\* An object was written to a store that held it already.
C6_WrittenTwice ==
    /\ res.cmd = "object-write"
    /\ res.ok
    /\ StoreHas(before, Resolve(res.root), Object_hash(res.obj))
    /\ Len(wlog) = 1

ReadsBack(r, rec) == r.tag = "Ok" /\ r.data = rec.bytes

Absent(r) == r.tag = "Err" /\ r.err = "ObjectNotFound"

\* C7: every object a command wrote is in the file
\* <root>/.git/objects/<2 hex>/<38 hex> of its hash and is read back from
\* that root as the canonical bytes written; reading a hash that has no
\* such file fails with ObjectNotFound and changes nothing.
C7_WriteThenRead ==
    /\ \A i \in 1..Len(wlog) :
        /\ IsFile(fs, StoreFile(wlog[i].root, HexEncode(wlog[i].hash)))
        /\ ReadsBack(read_object(fs, HexEncode(wlog[i].hash), AbsPath(wlog[i].root)),
                     wlog[i])
    /\ res.cmd = "object-write" /\ res.ok =>
            /\ Len(wlog) = 1
            /\ wlog[1].bytes = Object_to_bytes(res.obj)
            /\ wlog[1].hash = Sha1(wlog[1].bytes)
    /\ res.cmd \in {"cat-file", "ls-tree"}
            /\ ~IsFile(before, StoreFile(Resolve(res.root), res.sha)) =>
                /\ ~res.ok
                /\ res.err = "ObjectNotFound"
                /\ Absent(read_object(before, res.sha, res.root))
                /\ fs = before

\* A commit was written and is read back from its store.
C7_CommitReadBack ==
    /\ res.cmd = "object-write"
    /\ res.ok
    /\ res.obj.kind = "commit"
    /\ Len(wlog) = 1
    /\ ReadsBack(read_object(fs, HexEncode(wlog[1].hash), res.root), wlog[1])

---------------------------------------------------------------------------
(* SHA-1 as the hasher computes it (FIPS 180-4), its 32-bit words held as   *)
(* pairs of 16-bit halves                                                   *)

RECURSIVE And16(_, _)
And16(a, b) ==
    IF a = 0 \/ b = 0 THEN 0
    ELSE (a % 2) * (b % 2) + 2 * And16(a \div 2, b \div 2)
Xor16(a, b) == a + b - 2 * And16(a, b)

WAnd(x, y) == <<And16(x[1], y[1]), And16(x[2], y[2])>>
WXor(x, y) == <<Xor16(x[1], y[1]), Xor16(x[2], y[2])>>
WNot(x) == <<65535 - x[1], 65535 - x[2]>>
WOr0(x, y) == <<x[1] + y[1], x[2] + y[2]>>
Pow2(n) == CASE n = 1 -> 2 [] n = 5 -> 32 [] n = 14 -> 16384 [] n = 15 -> 32768
             [] n = 11 -> 2048 [] n = 2 -> 4
Rotl(x, n) ==
    <<((x[1] * Pow2(n)) % 65536) + (x[2] \div Pow2(16 - n)),
      ((x[2] * Pow2(n)) % 65536) + (x[1] \div Pow2(16 - n))>>
Rotl30(x) == Rotl(<<x[2], x[1]>>, 14)
WSum(lo, hi) == <<(hi + (lo \div 65536)) % 65536, lo % 65536>>
Add5(a, b, c, d, e) ==
    WSum(a[2] + b[2] + c[2] + d[2] + e[2], a[1] + b[1] + c[1] + d[1] + e[1])
Add2(a, b) == WSum(a[2] + b[2], a[1] + b[1])

F(t, b, c, d) ==
    IF t <= 20 THEN WOr0(WAnd(b, c), WAnd(WNot(b), d))
    ELSE IF t <= 40 \/ t > 60 THEN WXor(WXor(b, c), d)
    ELSE WOr0(WAnd(b, c), WAnd(d, WXor(b, c)))
K(t) ==
    IF t <= 20 THEN <<23170, 31129>>
    ELSE IF t <= 40 THEN <<28377, 60321>>
    ELSE IF t <= 60 THEN <<36635, 48348>>
    ELSE <<51810, 49622>>

Zeros(n) == [i \in 1..n |-> 0]
Padded(b) ==
    b \o <<128>> \o Zeros((119 - Len(b)) % 64)
      \o <<0, 0, 0, 0, 0, (Len(b) * 8) \div 65536, ((Len(b) * 8) \div 256) % 256, (Len(b) * 8) % 256>>

Word(p, i) == <<p[i] * 256 + p[i + 1], p[i + 2] * 256 + p[i + 3]>>
Next1(w) ==
    Append(w, Rotl(WXor(WXor(w[Len(w) - 2], w[Len(w) - 7]),
                        WXor(w[Len(w) - 13], w[Len(w) - 15])), 1))
RECURSIVE Extend(_, _, _)
ExtendOn(w, lo, hi) == IF Len(w) < lo THEN Extend(w, lo, hi) ELSE w
Extend(w, lo, hi) ==
    IF lo = hi THEN Next1(w)
    ELSE ExtendOn(Extend(w, lo, (lo + hi) \div 2), (lo + hi) \div 2 + 1, hi)
Expand(w) == Extend(w, 17, 80)
Step(s, t, w) ==
    <<Add5(Rotl(s[1], 5), F(t, s[2], s[3], s[4]), s[5], K(t), w[t]),
      s[1], Rotl30(s[2]), s[3], s[4]>>
RECURSIVE Rounds(_, _, _, _)
RoundsOn(s, lo, hi, w) == IF Len(s) = 5 THEN Rounds(s, lo, hi, w) ELSE s
Rounds(s, lo, hi, w) ==
    IF lo = hi THEN Step(s, lo, w)
    ELSE RoundsOn(Rounds(s, lo, (lo + hi) \div 2, w), (lo + hi) \div 2 + 1, hi, w)
AddState(h, s) == [i \in 1..5 |-> Add2(h[i], s[i])]
Block(h, p, off) ==
    AddState(h, Rounds(h, 1, 80, Expand([i \in 1..16 |-> Word(p, off + 4 * (i - 1) + 1)])))
RECURSIVE Blocks(_, _, _)
Blocks(h, p, off) ==
    IF off >= Len(p) THEN h ELSE Blocks(Block(h, p, off), p, off + 64)
H0 == <<<<26437, 8961>>, <<61389, 43913>>, <<39098, 56574>>, <<4146, 21622>>, <<50130, 57840>>>>
WBytes(x) == <<x[1] \div 256, x[1] % 256, x[2] \div 256, x[2] % 256>>
Sha1Digest(b) ==
    LET h == Blocks(H0, Padded(b), 0)
    IN WBytes(h[1]) \o WBytes(h[2]) \o WBytes(h[3]) \o WBytes(h[4]) \o WBytes(h[5])

---------------------------------------------------------------------------
(* Properties of hash-object                                               *)

\* The digest of the empty blob, as 40 hex characters.
EmptyBlobHex ==
    <<101, 54, 57, 100, 101, 50, 57, 98, 98, 50, 100, 49, 100, 54, 52, 51, 52, 98, 56, 98, 50, 57, 97
      , 101, 55, 55, 53, 97, 100, 56, 99, 50, 101, 52, 56, 99, 53, 51, 57, 49>>

IsLowerHex(s) == \A i \in 1..Len(s) : s[i] \in (48..57) \cup (97..102)

\* "blob <decimal length>\0" followed by the content.
BlobForm(c) == S_blob \o <<SP>> \o ToDecimal(Len(c)) \o <<NUL>> \o c

HashedAndStored(c) ==
    /\ Len(wlog) = 1
    /\ wlog[1].bytes = BlobForm(c)
    /\ out = HexEncode(Sha1(BlobForm(c)))
    /\ out # HexEncode(Sha1(c))
    /\ Len(out) = 2 * HashLen
    /\ IsLowerHex(out)
    /\ IsFile(fs, StoreFile(Resolve(res.root), out))
    /\ c = <<>> =>
        /\ wlog[1].bytes = <<98, 108, 111, 98, 32, 48, 0>>
        /\ HexEncode(Sha1Digest(wlog[1].bytes)) = EmptyBlobHex

\* C11: hash-object of a file writes the 40 lowercase hex characters of the
\* digest of "blob <length>\0" followed by the file's bytes, and the object
\* is then in the store at objects/<2 hex>/<38 hex> of that digest; for a
\* zero-byte file the bytes hashed are "blob 0\0", whose SHA-1 is
\* e69de29bb2d1d6434b8b29ae775ad8c2e48c5391.
C11_HashObject ==
    res.cmd = "hash-object" /\ res.ok =>
        HashedAndStored(before[Resolve(Join(res.root, res.file))].data)

\* hash-object of a zero-byte file succeeded.
C11_EmptyFileHashed ==
    /\ res.cmd = "hash-object"
    /\ res.ok
    /\ before[Resolve(Join(res.root, res.file))].data = <<>>
    /\ Len(wlog) = 1

\* hash-object of a file with content succeeded.
C11_FileHashed ==
    /\ res.cmd = "hash-object"
    /\ res.ok
    /\ before[Resolve(Join(res.root, res.file))].data # <<>>

---------------------------------------------------------------------------
(* Properties of init                                                      *)

\* "ref: refs/heads/master\n"
HeadLine ==
    <<114, 101, 102, 58, 32, 114, 101, 102, 115, 47, 104, 101, 97, 100, 115, 47, 109, 97, 115, 116, 101, 114, 10>>

DotGit(root) == root \o <<S_git>>
HeadFile(root) == root \o <<S_git, S_HEAD>>

IsEmptyDir(f, c) == IsDir(f, c) /\ \A x \in DOMAIN f : x = <<>> \/ Parent(x) # c

Initialized(f, root) ==
    /\ IsDir(f, DotGit(root))
    /\ IsDir(f, root \o <<S_git, S_objects>>)
    /\ IsEmptyDir(f, root \o <<S_git, S_refs>>)
    /\ IsFile(f, HeadFile(root))
    /\ f[HeadFile(root)].data = HeadLine

\* C12: after an init that succeeded, .git, .git/objects and .git/refs are
\* directories, refs is empty and HEAD holds the one line
\* "ref: refs/heads/master\n"; no later command changes HEAD or fills refs,
\* and an init of a root that has a .git fails and changes nothing.
C12_InitLayout ==
    /\ res.cmd = "init" /\ res.ok => Initialized(fs, Resolve(res.root))
    /\ Initialized(before, Resolve(DotRoot)) => Initialized(fs, Resolve(DotRoot))
    /\ res.cmd = "init" /\ Exists(before, DotGit(Resolve(res.root))) =>
            ~res.ok /\ fs = before

\* A second init of an initialized root failed.
C12_SecondInit ==
    /\ res.cmd = "init"
    /\ ~res.ok
    /\ Initialized(before, Resolve(res.root))
    /\ Initialized(fs, Resolve(res.root))

\* An initialized root had objects written to it.
C12_WrittenAfterInit ==
    /\ Initialized(before, Resolve(DotRoot))
    /\ fs # before

---------------------------------------------------------------------------
(* Properties of the tree entry decoder                                    *)

\* Some entry of a tree body has its "<mode> <name>\0" and then fewer than
\* 20 bytes.
RECURSIVE HasTruncatedEntry(_, _)
TruncatedAt(b, from, sp, nul) ==
    /\ sp # 0
    /\ nul # 0
    /\ IsDecimal(SubSeq(b, from, sp - 1))
    /\ \/ Len(b) - nul < HashLen
       \/ HasTruncatedEntry(b, nul + HashLen + 1)
TruncatedFrom(b, from, sp) ==
    TruncatedAt(b, from, sp, IF sp = 0 THEN 0 ELSE Position(b, NUL, sp + 1))
HasTruncatedEntry(b, from) ==
    from <= Len(b) /\ TruncatedFrom(b, from, Position(b, SP, from))

IsTruncatedTree(p) ==
    p.tag = "Some" /\ p.field1 = S_tree /\ HasTruncatedEntry(p.rest, 1)

\* C13: decoding a tree that has an entry with fewer than 20 bytes after its
\* "<mode> <name>\0" returns the TruncatedEntry error to the caller: the
\* process is not aborted and no object is returned.
C13_TruncatedEntry ==
    cin.op = "decode" /\ IsTruncatedTree(parse_fields(cin.bytes)) =>
        cout.tag = "Err" /\ cout.err = "TruncatedEntry"

\* What does hold: no object is returned.
C13_NoTreeReturned ==
    cin.op = "decode" /\ IsTruncatedTree(parse_fields(cin.bytes)) => cout.tag = "Panic"

\* A tree with a truncated entry was decoded and the decoder panicked.
C13_Panicked ==
    /\ cin.op = "decode"
    /\ IsTruncatedTree(parse_fields(cin.bytes))
    /\ cout.tag = "Panic"

---------------------------------------------------------------------------
(* Properties of the field parser                                          *)

\* The index of the first x at or after from, 0 when there is none.
FirstAt(b, x, from) ==
    IF \E i \in from..Len(b) : b[i] = x
    THEN CHOOSE i \in from..Len(b) : b[i] = x /\ \A j \in from..(i - 1) : b[j] # x
    ELSE 0

FieldsAt(b, sp, nul, r) ==
    IF sp = 0 \/ nul = 0 THEN r.tag = "Err"
    ELSE IF ~IsUtf8(SubSeq(b, 1, sp - 1)) \/ ~IsUtf8(SubSeq(b, sp + 1, nul - 1))
    THEN r.tag = "Err"
    ELSE /\ r.tag = "Some"
         /\ r.field1 = SubSeq(b, 1, sp - 1)
         /\ r.field2 = SubSeq(b, sp + 1, nul - 1)
         /\ r.rest = SubSeq(b, nul + 1, Len(b))
         /\ r.field1 \o <<SP>> \o r.field2 \o <<NUL>> \o r.rest = b

FieldsFrom(b, sp, r) ==
    FieldsAt(b, sp, IF sp = 0 THEN 0 ELSE FirstAt(b, NUL, sp + 1), r)

\* C14: parse_fields returns "no fields" exactly for the empty buffer; an
\* error when the buffer has no space, no NUL after the first space, or a
\* field that is not UTF-8; and else the bytes before the first space, the
\* bytes between it and the first NUL after it, and the bytes after that
\* NUL, which put together again give the buffer.
C14_ParseFields ==
    cin.op = "parse_fields" =>
        /\ cout.tag = "None" <=> cin.bytes = <<>>
        /\ cin.bytes # <<>> => FieldsFrom(cin.bytes, FirstAt(cin.bytes, SP, 1), cout)

\* A buffer with a NUL before its first space and text after its second NUL
\* was split into fields.
C14_FieldsReturned ==
    /\ cin.op = "parse_fields"
    /\ cout.tag = "Some"
    /\ cout.field1 = <<NUL>>
    /\ cout.rest # <<>>

---------------------------------------------------------------------------
(* Properties of the directory walk                                        *)

IsHiddenName(n) == n # <<>> /\ n[1] = DOT

\* A path at or beneath an entry whose name begins with '.', below dir.
IsHiddenBelow(c, dir) ==
    /\ Len(c) > Len(dir)
    /\ SubSeq(c, 1, Len(dir)) = dir
    /\ \E i \in (Len(dir) + 1)..Len(c) : IsHiddenName(c[i])

IsVisibleBelow(c, dir) ==
    /\ Len(c) > Len(dir)
    /\ SubSeq(c, 1, Len(dir)) = dir
    /\ \A i \in (Len(dir) + 1)..Len(c) : ~IsHiddenName(c[i])

VisibleChildren(f, d) ==
    {c[Len(c)] : c \in {x \in DOMAIN f : Len(x) = Len(d) + 1 /\ IsVisibleBelow(x, d)}}

\* The directories a walk from dir goes through: dir and the visible
\* directories beneath it.
VisibleDirs(f, dir) ==
    {dir} \cup {c \in DOMAIN f : IsVisibleBelow(c, dir) /\ IsDir(f, c)}

VisibleFiles(f, dir) == {c \in DOMAIN f : IsVisibleBelow(c, dir) /\ IsFile(f, c)}

EntryNameSet(es) == {es[k].name : k \in 1..Len(es)}

\* The tree of a record lists the visible entries of directory d, each once,
\* and so do the trees of its subdirectories.
RECURSIVE TreeShows(_, _, _)
TreeShowsEntries(log, es, d) ==
    /\ EntryNameSet(es) = VisibleChildren(before, d)
    /\ Len(es) = Cardinality(VisibleChildren(before, d))
    /\ \A k \in 1..Len(es) :
           es[k].mode = S_40000 =>
               \E j \in 1..Len(log) :
                   /\ IsTreeRecord(log[j])
                   /\ log[j].hash = es[k].hash
                   /\ TreeShows(log, log[j], Append(d, es[k].name))
TreeShows(log, rec, d) == TreeShowsEntries(log, RecordEntries(rec), d)

NoHiddenNames(es) == \A k \in 1..Len(es) : ~IsHiddenName(es[k].name)

BlobRecords(log) == {j \in 1..Len(log) : ~IsTreeRecord(log[j])}
TreeRecordIndexes(log) == {j \in 1..Len(log) : IsTreeRecord(log[j])}

\* C15: a tree command lists no entry whose name begins with '.' in any
\* tree it writes and persists no blob of a file that is hidden or beneath
\* a hidden directory; when it succeeds, the root tree and the trees of the
\* subdirectories list every visible entry exactly once, and one tree per
\* visible directory and at most one blob per visible file was written.
C15_HiddenSkipped ==
    TreeCommand =>
        /\ \A i \in 1..Len(wlog) :
               IsTreeRecord(wlog[i]) => NoHiddenNames(RecordEntries(wlog[i]))
        /\ \A c \in DOMAIN before :
               IsHiddenBelow(c, Resolve(res.root)) /\ IsFile(before, c) =>
                   \A i \in 1..Len(wlog) : wlog[i].bytes # BlobForm(before[c].data)
        /\ res.ok =>
               /\ wlog # <<>>
               /\ wlog[Len(wlog)].hash = res.hash
               /\ TreeShows(wlog, wlog[Len(wlog)], Resolve(res.root))
               /\ Cardinality(TreeRecordIndexes(wlog))
                      = Cardinality(VisibleDirs(before, Resolve(res.root)))
               /\ Cardinality(BlobRecords(wlog))
                      <= Cardinality(VisibleFiles(before, Resolve(res.root)))

\* A tree was written of a directory that holds a hidden entry and has a
\* subdirectory that holds a hidden directory with a file in it.
C15_HiddenAtTwoLevels ==
    /\ TreeCommand
    /\ res.ok
    /\ \E c \in DOMAIN before : Len(c) = 1 /\ IsHiddenName(c[1])
    /\ \E c \in DOMAIN before :
           Len(c) = 3 /\ ~IsHiddenName(c[1]) /\ IsHiddenName(c[2]) /\ IsFile(before, c)

---------------------------------------------------------------------------
(* Properties of the entry modes                                           *)

\* "40000", "100755", "100644" and "tree 0\0".
ModeDir == <<52, 48, 48, 48, 48>>
ModeExec == <<49, 48, 48, 55, 53, 53>>
ModeFile == <<49, 48, 48, 54, 52, 52>>
EmptyTreeForm == <<116, 114, 101, 101, 32, 48, 0>>

\* The mode of the node at a path of the working directory.
ModeOf(f, c) ==
    IF IsDir(f, c) THEN ModeDir
    ELSE IF f[c].exec THEN ModeExec
    ELSE ModeFile

\* Every entry of the tree of a record has the mode of the node it names in
\* directory d, and so have the entries of the trees of its subdirectories.
RECURSIVE TreeModes(_, _, _)
TreeModesEntries(log, es, d) ==
    \A k \in 1..Len(es) :
        /\ Append(d, es[k].name) \in DOMAIN before
        /\ es[k].mode = ModeOf(before, Append(d, es[k].name))
        /\ es[k].mode = ModeDir =>
               \E j \in 1..Len(log) :
                   /\ IsTreeRecord(log[j])
                   /\ log[j].hash = es[k].hash
                   /\ TreeModes(log, log[j], Append(d, es[k].name))
TreeModes(log, rec, d) ==
    /\ TreeModesEntries(log, RecordEntries(rec), d)
    /\ VisibleChildren(before, d) = {} => rec.bytes = EmptyTreeForm

KnownModes(es) == \A k \in 1..Len(es) : es[k].mode \in {ModeDir, ModeExec, ModeFile}

\* C16: every entry of every tree a tree command writes has mode 40000,
\* 100755 or 100644; in the trees of a command that succeeded the mode is
\* 40000 exactly for a subdirectory, 100755 exactly for a file with an
\* executable bit and 100644 exactly for a file with none, and a directory
\* with no visible entry is written as "tree 0\0".
C16_EntryModes ==
    TreeCommand =>
        /\ \A i \in 1..Len(wlog) :
               IsTreeRecord(wlog[i]) =>
                   /\ KnownModes(RecordEntries(wlog[i]))
                   /\ RecordEntries(wlog[i]) = <<>> <=> wlog[i].bytes = EmptyTreeForm
        /\ res.ok =>
               /\ wlog # <<>>
               /\ TreeModes(wlog, wlog[Len(wlog)], Resolve(res.root))

ModesWritten(log) ==
    UNION {{RecordEntries(log[i])[k].mode : k \in 1..Len(RecordEntries(log[i]))} :
              i \in TreeRecordIndexes(log)}

\* Trees were written with entries of the three modes, and the tree of an
\* empty subdirectory.
C16_ThreeModesAndEmpty ==
    /\ TreeCommand
    /\ res.ok
    /\ Len(wlog) > 1
    /\ ModesWritten(wlog) = {ModeDir, ModeExec, ModeFile}
    /\ \E i \in 1..(Len(wlog) - 1) : wlog[i].bytes = EmptyTreeForm

=============================================================================
